---- MODULE Spec2Model ----
(***************************************************************************)
(* State-machine model of src/news_crawler.py: RobotsCache, NewsCrawler    *)
(* and scrape_urls.  One asyncio task runs scrape_urls; every program      *)
(* counter value is either a point where the task is suspended at an       *)
(* await (robots, delay, light, lbackoff, rendered, rbackoff, closing) or  *)
(* an internal point of the synchronous code between two awaits.           *)
(***************************************************************************)
EXTENDS Integers, Sequences, FiniteSets, TLC

\* ---------------------------------------------------------------- bounds
MaxBatch == 2        \* longest input URL list explored
MaxDelay == 1        \* largest Crawl-delay a robots.txt declares

\* ------------------------------------------------------ program constants
max_retries == 3     \* NewsCrawler.__init__(max_retries=3)

\* ------------------------------------------------------------ input space
Schemes == {"http", "https"}
Hosts == {"site.test"}
Paths == {"/ok", "/blocked"}

URL == [scheme : Schemes, netloc : Hosts, path : Paths]

SeqsUpTo(S, n) == UNION {[1..k -> S] : k \in 0..n}

Batches == SeqsUpTo(URL, MaxBatch)

\* Extracted texts, as sequences of characters: "", " ", "a" and " a ".
Texts == {<<>>, <<" ">>, <<"a">>, <<" ", "a", " ">>}

\* Optional[T] is a sequence of length 0 (None) or 1 (a value).
None == <<>>
Some(v) == <<v>>

\* domain = f"{parsed.scheme}://{parsed.netloc}"
Domain(url) == <<url.scheme, url.netloc>>
Domains == {Domain(u) : u \in URL}

\* A robots.txt body as the parser sees it for agent '*': the Disallow
\* rules and the optional Crawl-delay line.  The files explored disallow
\* nothing or "/blocked".
RobotsTxt == [disallow : {{}, {"/blocked"}}, crawl_delay : {None} \cup {Some(d) : d \in 1..MaxDelay}]

\* Result of `async with session.get(robots_url)` + `resp.text()`.
RobotsResponses == {[ok |-> FALSE, body |-> [disallow |-> {}, crawl_delay |-> None]]}
                   \cup {[ok |-> TRUE, body |-> b] : b \in RobotsTxt}

\* Exceptions a download or an extraction can raise, and the one a
\* cancelled await raises.
DownloadErrors == {"NetworkError", "Timeout"}
RenderErrors == {"RenderError", "Timeout"}
ParseErrors == {"ParseError"}
CancelledError == "CancelledError"

\* What one attempt (download + _parse_article) produces.
AttemptOutcomes(errors) ==
    {[kind |-> "raise", exc |-> e, text |-> None] : e \in errors \cup ParseErrors}
    \cup {[kind |-> "article", exc |-> "", text |-> None]}
    \cup {[kind |-> "article", exc |-> "", text |-> Some(t)] : t \in Texts}

\* ------------------------------------------------------- pure operators
Min(a, b) == IF a < b THEN a ELSE b

IsSpace(c) == c = " "

RECURSIVE LStrip(_)
LStrip(t) == IF t # <<>> /\ IsSpace(Head(t)) THEN LStrip(Tail(t)) ELSE t

RECURSIVE RStrip(_)
RStrip(t) == IF t # <<>> /\ IsSpace(t[Len(t)]) THEN RStrip(SubSeq(t, 1, Len(t) - 1)) ELSE t

\* str.strip()
Strip(t) == RStrip(LStrip(t))

\* `if article.text.strip():` -- truthiness of the stripped text.
HasTextMut(t) == TRUE
HasText(t) == Strip(t) # <<>>

\* article.text.strip() raises AttributeError when text is None.
AttemptException(o) ==
    IF o.kind = "raise" THEN o.exc
    ELSE IF o.text = None THEN "AttributeError"
    ELSE ""

\* `except Exception` catches everything but BaseException subclasses.
CatchesMut(exc) == exc \in DownloadErrors \cup RenderErrors
CatchesAllMut(exc) == TRUE
Catches(exc) == exc # CancelledError

\* RobotsCache.fetch: the parser built from the response; the except
\* branch parses the empty file.
ParsedFailMut(resp) == [disallow |-> Paths, crawl_delay |-> None]
ParsedFail(resp) == [disallow |-> {}, crawl_delay |-> None]

ParserFor(resp) == IF resp.ok THEN resp.body ELSE ParsedFail(resp)

\* parser.crawl_delay('*') or 0
DelayOf(parser) == IF parser.crawl_delay = None THEN 0 ELSE parser.crawl_delay[1]

\* parser.can_fetch('*', url)
CanFetch(parser, url) == url.path \notin parser.disallow

\* self.delays.get(domain, 0)
DelayForMut(cache, domain) == 0
DelayFor(cache, domain) == IF cache[domain] = None THEN 0 ELSE cache[domain][1]

\* `parser is None` after self.parsers.get(domain)
NeedsFetchMut(cache, domain) == TRUE
NeedsFetch(cache, domain) == cache[domain] = None

\* `if data: results.append(data)`
CollectMut(res, data) == Append(res, data)
CollectFrontMut(res, data) == IF data # None THEN <<data>> \o res ELSE res
Collect(res, data) == IF data # None THEN Append(res, data) ELSE res

\* `if not allowed: return None`
BlockedMut(allowed) == FALSE
Blocked(allowed) == ~allowed

\* `if attempt == self.max_retries:` in the except branches.
LastAttemptMut(n) == n >= max_retries - 1
LastAttempt(n) == n = max_retries

\* `for attempt in range(1, self.max_retries + 1)`: n is in the range.
InRangeMut(n) == n >= 1 /\ n < max_retries
InRange(n) == n >= 1 /\ n < max_retries + 1

\* `if async_playwright is None:`
RenderMissingMut(installed) == FALSE
RenderMissing(installed) == ~installed

\* `for attempt in range(1, ...)` of the playwright loop: the counter the
\* loop starts from, whatever the static loop left in `attempt`.
RestartMut(n) == n
Restart(n) == 1

\* logger.error("Playwright not available for %s", url): the number of
\* such entries after one more.
LogUnavailable(n) == n + 1

\* The rendering environment of _download_playwright: the playwright
\* driver entered by `async with async_playwright() as p` and the browser
\* launched from it.
NoEnv == [driver |-> FALSE, browser |-> FALSE]

\* `async with async_playwright() as p: browser = await p.chromium.launch(...)`
Launch(e) == [driver |-> TRUE, browser |-> TRUE]

\* `await browser.close()`
BrowserClose(e) == [e EXCEPT !.browser = FALSE]

\* Leaving the `async with` block, by return or by exception: the driver
\* is stopped, and a browser it still runs ends with it.
DriverExitMut(e) == [e EXCEPT !.driver = FALSE]
DriverExit(e) == [driver |-> FALSE, browser |-> FALSE]

\* _download_playwright is left: `browser.close()` is reached only when
\* nothing raised before it.
LeaveRender(e, completed) == DriverExit(IF completed THEN BrowserClose(e) ELSE e)

\* The exit status of the interpreter: 0 when main returns, 1 when an
\* exception leaves it.
ExitStatus(returned) == IF returned THEN 0 ELSE 1

\* ------------------------------------------------------------------ state
VARIABLES
    urls,          \* the input list given to scrape_urls
    playwright,    \* whether `from playwright.async_api import ...` succeeded
    parsers,       \* RobotsCache.parsers: domain -> Optional parser
    delays,        \* RobotsCache.delays: domain -> Optional int
    sessionOpen,   \* NewsCrawler.session is open
    results,       \* scrape_urls' local `results`
    idx,           \* position of the loop `for url in urls` (1-based)
    attempt,       \* loop variable `attempt` of the running retry loop
    pc,            \* where the task is
    raised,        \* the exception that left scrape_urls, "" when none
    robotsFetches, \* history: domain -> number of robots.txt requests
    robotsFailed,  \* history: domains whose robots.txt request raised
    closes,        \* history: number of session.close() calls completed
    ret,           \* history: per URL, what fetch_article returned
    stage,         \* history: per URL, "PENDING", "ACTIVE" or "DONE"
    lightN,        \* history: Light attempts started by the latest call
    rendN,         \* history: Rendered attempts started by the latest call
    delayN,        \* history: politeness sleeps made by the latest call
    lastSleep,     \* history: the latest asyncio.sleep of the latest call
    why,           \* history: per URL, how fetch_article ended ("" before)
    sinceLast,     \* history: domain -> time since the last attempt start
    lastGap,       \* history: the gap seen when the latest attempt started
    cancelled,     \* history: the task has been cancelled
    exitCode,      \* exit status of the process, -1 while it runs
    unavailable,   \* history: number of "Playwright not available" entries logged
    env            \* the rendering environment of the running _download_playwright
\* The histories of the latest fetch_article call are kept until the next
\* call is entered, and dropped, with the local `attempt`, once the loop of
\* scrape_urls is left and no call can follow.

cacheVars == <<parsers, delays, robotsFetches, robotsFailed>>
loopVars == <<results, idx, ret, stage, why>>
attemptVars == <<lightN, rendN, lastGap>>
sleepVars == <<delayN, lastSleep>>
constVars == <<urls, playwright>>
procVars == <<cancelled, exitCode>>

vars == <<urls, playwright, parsers, delays, sessionOpen, results, idx, attempt,
          pc, raised, robotsFetches, robotsFailed, closes, ret, stage, lightN,
          rendN, delayN, lastSleep, why, sinceLast, lastGap, cancelled, exitCode,
          unavailable, env>>

url == urls[idx]
domain == Domain(url)

\* The URL of the latest fetch_article call, whose attempts and sleeps the
\* counters lightN, rendN, delayN and lastSleep count; 0 before the first.
LastCall == IF idx <= Len(urls) /\ stage[idx] = "ACTIVE" THEN idx ELSE idx - 1

AwaitPoints == {"robots", "delay", "light", "lbackoff", "rendered", "rbackoff", "closing"}

\* The clock: time since the last attempt start per domain, -1 before the
\* first one, saturating at MaxDelay (no crawl-delay is larger).  Time
\* passes in asyncio.sleep; a network wait is taken to last no time, the
\* closest two attempts can get.
Elapse(since, k) ==
    [d \in Domains |-> IF since[d] = -1 THEN -1 ELSE Min(MaxDelay, since[d] + k)]

NoSleep == [kind |-> "none", secs |-> 0, after |-> 0]
NoGap == [domain |-> <<>>, gap |-> -1, kind |-> "none"]

\* The histories of a call as a call finds them.
FreshCall ==
    /\ lightN' = 0
    /\ rendN' = 0
    /\ delayN' = 0
    /\ lastSleep' = NoSleep

\* The frames of fetch_article are gone for good.
CallsOver ==
    /\ FreshCall
    /\ attempt' = 0
    /\ lastGap' = NoGap

\* NewsCrawler() and `results = []` at the top of scrape_urls.
Init ==
    /\ urls \in Batches
    /\ playwright \in BOOLEAN
    /\ parsers = [d \in Domains |-> None]
    /\ delays = [d \in Domains |-> None]
    /\ sessionOpen = TRUE
    /\ results = <<>>
    /\ idx = 1
    /\ attempt = 0
    /\ pc = "loop"
    /\ raised = ""
    /\ robotsFetches = [d \in Domains |-> 0]
    /\ robotsFailed = {}
    /\ closes = 0
    /\ ret = [i \in 1..Len(urls) |-> None]
    /\ stage = [i \in 1..Len(urls) |-> "PENDING"]
    /\ lightN = 0
    /\ rendN = 0
    /\ delayN = 0
    /\ lastSleep = NoSleep
    /\ why = [i \in 1..Len(urls) |-> ""]
    /\ sinceLast = [d \in Domains |-> -1]
    /\ lastGap = NoGap
    /\ cancelled = FALSE
    /\ exitCode = -1
    /\ unavailable = 0
    /\ env = NoEnv

\* fetch_article returns `data` to the loop of scrape_urls, which collects
\* it and moves to the next URL (lines 144-146).
Return(data, how) ==
    /\ ret' = [ret EXCEPT ![idx] = data]
    /\ why' = [why EXCEPT ![idx] = how]
    /\ stage' = [stage EXCEPT ![idx] = "DONE"]
    /\ results' = Collect(results, data)
    /\ idx' = idx + 1
    /\ pc' = "loop"

\* An exception leaves fetch_article and scrape_urls (nothing catches it
\* there, and `await crawler.close()` is skipped).
Propagate(exc) ==
    /\ raised' = exc
    /\ pc' = "raised"
    /\ CallsOver
    /\ UNCHANGED <<loopVars, sessionOpen, closes>>

\* `for url in urls: data = await crawler.fetch_article(url)` up to
\* RobotsCache.allowed's lookup of the cached parser (lines 143-144, 102,
\* 54-58).
BeginUrl ==
    /\ pc = "loop"
    /\ idx <= Len(urls)
    /\ stage' = [stage EXCEPT ![idx] = "ACTIVE"]
    /\ FreshCall
    /\ IF NeedsFetch(parsers, domain)
       THEN /\ robotsFetches' = [robotsFetches EXCEPT ![domain] = @ + 1]
            /\ pc' = "robots"
       ELSE /\ pc' = "policy"
            /\ UNCHANGED robotsFetches
    /\ UNCHANGED <<procVars, unavailable, env, constVars, parsers, delays, robotsFailed, sessionOpen, results, idx,
                   ret, why, attempt, raised, closes, lastGap, sinceLast>>

\* RobotsCache.fetch finishes: the request answered or raised, and the
\* parser and delay are stored (lines 44-51).
RobotsDone ==
    /\ pc = "robots"
    /\ \E resp \in RobotsResponses :
         /\ parsers' = [parsers EXCEPT ![domain] = Some(ParserFor(resp))]
         /\ delays' = [delays EXCEPT ![domain] = Some(DelayOf(ParserFor(resp)))]
         /\ robotsFailed' = IF resp.ok THEN robotsFailed ELSE robotsFailed \cup {domain}
    /\ pc' = "policy"
    /\ UNCHANGED <<procVars, unavailable, env, constVars, robotsFetches, sessionOpen, loopVars, attempt, raised,
                   closes, attemptVars, sleepVars, sinceLast>>

\* `return parser.can_fetch('*', url), self.delays.get(domain, 0)` and the
\* test of `allowed` in fetch_article (lines 60, 102-106).
CheckPolicy ==
    /\ pc = "policy"
    /\ LET allowed == CanFetch(parsers[domain][1], url)
           delay == DelayFor(delays, domain)
       IN IF Blocked(allowed)
          THEN /\ Return(None, "blocked")
               /\ UNCHANGED sleepVars
          ELSE /\ delayN' = delayN + 1
               /\ lastSleep' = [kind |-> "delay", secs |-> delay, after |-> 0]
               /\ pc' = "delay"
               /\ UNCHANGED loopVars
    /\ UNCHANGED <<procVars, unavailable, env, constVars, cacheVars, sessionOpen, attempt, raised, closes,
                   attemptVars, sinceLast>>

\* `await asyncio.sleep(delay)` is over; the static loop starts (106-109).
DelayDone ==
    /\ pc = "delay"
    /\ sinceLast' = Elapse(sinceLast, lastSleep.secs)
    /\ attempt' = 1
    /\ pc' = "light_start"
    /\ UNCHANGED <<procVars, unavailable, env, constVars, cacheVars, sessionOpen, loopVars, raised, closes,
                   attemptVars, sleepVars>>

\* The gap recorded when an attempt against `domain` starts.
GapAt(kind) == [domain |-> domain, gap |-> sinceLast[domain], kind |-> kind]

AttemptKind == IF attempt > 1 THEN "retry" ELSE IF pc = "light_start" THEN "first" ELSE "fallback"

\* `html = await self._download_static(url)` is issued (line 111).
StartLight ==
    /\ pc = "light_start"
    /\ lightN' = lightN + 1
    /\ lastGap' = GapAt(AttemptKind)
    /\ sinceLast' = [sinceLast EXCEPT ![domain] = 0]
    /\ pc' = "light"
    /\ UNCHANGED <<procVars, unavailable, env, constVars, cacheVars, sessionOpen, loopVars, attempt, raised,
                   closes, rendN, sleepVars>>

\* What the code does once an attempt's try block is over.  `exc` is the
\* exception it raised ("" when none), `rec` the article it parsed.  The
\* loop bodies of lines 110-119 and 127-136 differ in the statement run
\* on the last failure only: `break` (static) or `return None` (playwright).
\*   - text present after strip: `return article`;
\*   - no exception, empty text: next iteration, or the loop is over;
\*   - exception caught: break/return on the last attempt,
\*     else `await asyncio.sleep(attempt)`;
\*   - exception not caught: it leaves fetch_article.
AfterAttempt(exc, rec, again, backoff, over, last) ==
    IF exc = ""
    THEN IF HasText(rec.text)
         THEN /\ Return(Some(rec), "record")
              /\ UNCHANGED <<attempt, attemptVars, sleepVars, raised, sessionOpen, closes>>
         ELSE /\ IF InRange(attempt + 1)
                 THEN attempt' = attempt + 1 /\ pc' = again
                 ELSE attempt' = attempt /\ pc' = over
              /\ UNCHANGED <<loopVars, attemptVars, sleepVars, raised, sessionOpen, closes>>
    ELSE IF Catches(exc)
    THEN /\ IF LastAttempt(attempt)
            THEN pc' = last /\ UNCHANGED lastSleep
            ELSE /\ lastSleep' = [kind |-> "backoff", secs |-> attempt, after |-> attempt]
                 /\ pc' = backoff
         /\ UNCHANGED <<loopVars, attempt, attemptVars, delayN, raised, sessionOpen, closes>>
    ELSE Propagate(exc)

\* The text of an outcome that raised nothing.
TextOf(o) == IF o.text = None THEN <<>> ELSE o.text[1]

\* The static download and the extraction finish (lines 110-119).
LightDone ==
    /\ pc = "light"
    /\ \E o \in AttemptOutcomes(DownloadErrors) :
         AfterAttempt(AttemptException(o), [url |-> url, text |-> TextOf(o)],
                      "light_start", "lbackoff", "fallback", "fallback")
    /\ UNCHANGED <<procVars, unavailable, env, constVars, cacheVars, sinceLast>>

\* `await asyncio.sleep(attempt)` of a retry loop is over: next iteration
\* of that loop, or the loop is over.
BackoffDone(at, again, over) ==
    /\ pc = at
    /\ sinceLast' = Elapse(sinceLast, lastSleep.secs)
    /\ IF InRange(attempt + 1)
       THEN attempt' = attempt + 1 /\ pc' = again
       ELSE attempt' = attempt /\ pc' = over
    /\ UNCHANGED <<procVars, unavailable, env, constVars, cacheVars, sessionOpen, loopVars, raised, closes,
                   attemptVars, sleepVars>>

LightBackoffDone == BackoffDone("lbackoff", "light_start", "fallback")

\* `if async_playwright is None: ... return None`, else the playwright
\* loop starts (lines 121-126).
Fallback ==
    /\ pc = "fallback"
    /\ IF RenderMissing(playwright)
       THEN /\ unavailable' = LogUnavailable(unavailable)
            /\ Return(None, "unavailable")
            /\ UNCHANGED attempt
       ELSE /\ attempt' = Restart(attempt)
            /\ pc' = "rendered_start"
            /\ UNCHANGED <<loopVars, unavailable>>
    /\ UNCHANGED <<procVars, env, constVars, cacheVars, sessionOpen, raised, closes, attemptVars,
                   sleepVars, sinceLast>>

\* `html = await self._download_playwright(url)` is issued (line 128).
StartRendered ==
    /\ pc = "rendered_start"
    /\ rendN' = rendN + 1
    /\ lastGap' = GapAt(AttemptKind)
    /\ sinceLast' = [sinceLast EXCEPT ![domain] = 0]
    /\ env' = IF playwright THEN Launch(env) ELSE env
    /\ pc' = "rendered"
    /\ UNCHANGED <<procVars, unavailable, constVars, cacheVars, sessionOpen, loopVars, attempt, raised,
                   closes, lightN, sleepVars>>

\* _download_playwright raises RuntimeError at once without playwright
\* (lines 73-74); otherwise the page renders or a render error is raised.
RenderOutcomes ==
    IF playwright THEN AttemptOutcomes(RenderErrors)
    ELSE {[kind |-> "raise", exc |-> "RuntimeError", text |-> None]}

\* The outcome is an exception raised inside _download_playwright, before
\* its `browser.close()`; those of _parse_article come after it returned.
Interrupted(o) == o.kind = "raise" /\ o.exc \in RenderErrors \cup {"RuntimeError"}

\* The rendered download and the extraction finish (lines 127-136).
RenderedDone ==
    /\ pc = "rendered"
    /\ \E o \in RenderOutcomes :
         /\ env' = LeaveRender(env, ~Interrupted(o))
         /\ AfterAttempt(AttemptException(o), [url |-> url, text |-> TextOf(o)],
                         "rendered_start", "rbackoff", "exhausted", "exhausted")
    /\ UNCHANGED <<procVars, unavailable, constVars, cacheVars, sinceLast>>

RenderedBackoffDone == BackoffDone("rbackoff", "rendered_start", "exhausted")

\* `return None` of lines 135 and 137.
Exhausted ==
    /\ pc = "exhausted"
    /\ Return(None, "exhausted")
    /\ UNCHANGED <<procVars, unavailable, env, constVars, cacheVars, sessionOpen, attempt, raised, closes,
                   attemptVars, sleepVars, sinceLast>>

\* The loop over urls is over: `await crawler.close()` is issued (147).
EndLoop ==
    /\ pc = "loop"
    /\ idx > Len(urls)
    /\ pc' = "closing"
    /\ CallsOver
    /\ UNCHANGED <<procVars, unavailable, env, constVars, cacheVars, sessionOpen, loopVars, raised, closes, sinceLast>>

\* NewsCrawler.close finishes and scrape_urls returns `results` (69-70,
\* 147-148).
CloseDone ==
    /\ pc = "closing"
    /\ sessionOpen' = FALSE
    /\ closes' = closes + 1
    /\ pc' = "returned"
    /\ UNCHANGED <<procVars, unavailable, env, constVars, cacheVars, loopVars, attempt, raised, attemptVars,
                   sleepVars, sinceLast>>

\* The awaits that sit inside a `try: ... except Exception`.
GuardedAwaits == {"robots", "light", "rendered"}

\* The task is cancelled while suspended: CancelledError is raised at the
\* await.  At an await inside a try block the handler decides: the except
\* branch of RobotsCache.fetch stores the empty parser, those of the
\* retry loops count a failed attempt.  Anywhere else, and when the
\* handler does not catch it, the exception leaves scrape_urls.  A
\* rendering in progress leaves its `async with` block on the way.
Cancel ==
    /\ pc \in AwaitPoints
    /\ ~cancelled
    /\ cancelled' = TRUE
    /\ env' = IF pc = "rendered" THEN LeaveRender(env, FALSE) ELSE env
    /\ IF pc \in GuardedAwaits /\ Catches(CancelledError)
       THEN IF pc = "robots"
            THEN /\ parsers' = [parsers EXCEPT ![domain] = Some(ParsedFail(None))]
                 /\ delays' = [delays EXCEPT ![domain] = Some(DelayOf(ParsedFail(None)))]
                 /\ robotsFailed' = robotsFailed \cup {domain}
                 /\ pc' = "policy"
                 /\ UNCHANGED <<robotsFetches, sessionOpen, loopVars, attempt, raised,
                                closes, attemptVars, sleepVars>>
            ELSE /\ IF pc = "light"
                    THEN AfterAttempt(CancelledError, [url |-> url, text |-> <<>>],
                                      "light_start", "lbackoff", "fallback", "fallback")
                    ELSE AfterAttempt(CancelledError, [url |-> url, text |-> <<>>],
                                      "rendered_start", "rbackoff", "exhausted", "exhausted")
                 /\ UNCHANGED cacheVars
       ELSE /\ Propagate(CancelledError)
            /\ UNCHANGED cacheVars
    /\ UNCHANGED <<exitCode, unavailable, constVars, sinceLast>>

\* `main(sys.argv[1:])` is over and the interpreter exits (lines 155-164).
Exit ==
    /\ pc \in {"returned", "raised"}
    /\ exitCode = -1
    /\ exitCode' = ExitStatus(pc = "returned")
    /\ UNCHANGED <<cancelled, unavailable, env, constVars, cacheVars, sessionOpen, loopVars,
                   attempt, pc, raised, closes, attemptVars, sleepVars, sinceLast>>

Next ==
    \/ BeginUrl
    \/ RobotsDone
    \/ CheckPolicy
    \/ DelayDone
    \/ StartLight
    \/ LightDone
    \/ LightBackoffDone
    \/ Fallback
    \/ StartRendered
    \/ RenderedDone
    \/ RenderedBackoffDone
    \/ Exhausted
    \/ EndLoop
    \/ CloseDone
    \/ Cancel
    \/ Exit

Spec == Init /\ [][Next]_vars

TypeOK ==
    /\ urls \in Batches
    /\ idx \in 1..(Len(urls) + 1)
    /\ attempt \in 0..max_retries
    /\ sessionOpen \in BOOLEAN
    /\ closes \in 0..1
    /\ Len(results) <= Len(urls)

\* ------------------------------------------------------------ properties

Done(i) == stage[i] = "DONE"
Positions == 1..Len(urls)
RenderPoints == {"rendered_start", "rendered", "rbackoff", "exhausted"}
Ended == pc \in {"returned", "raised"}

\* URL i is the one of the latest call and that call's histories are kept.
Latest(i) == i = LastCall /\ pc \notin {"closing", "returned", "raised"}

C2_FailuresIsolated ==
    /\ raised \in {"", CancelledError}
    /\ pc = "raised" => raised = CancelledError
    /\ \A i \in Positions :
         /\ i < idx => Done(i)
         /\ why[i] \in {"blocked", "exhausted", "unavailable"} => Done(i) /\ ret[i] = None
         /\ why[i] = "record" <=> ret[i] # None
    /\ pc = "returned" => \A i \in Positions : Done(i)

C2_Witness ==
    /\ pc = "loop"
    /\ idx = 3
    /\ why[1] = "exhausted"
    /\ why[2] \in {"record", "exhausted"}
    /\ lightN = max_retries

\* C3: the number of robots.txt requests made for a domain is 1 when some
\* URL of that domain has been taken up by the loop and 0 otherwise: the
\* requests of a session number the distinct domains processed.
C3_OneFetchPerOrigin ==
    \A d \in Domains :
        robotsFetches[d] =
            IF \E i \in Positions : stage[i] # "PENDING" /\ Domain(urls[i]) = d THEN 1 ELSE 0

C3_Witness ==
    /\ pc = "returned"
    /\ Len(urls) = 2
    /\ Domain(urls[1]) = Domain(urls[2])
    /\ robotsFetches[Domain(urls[1])] = 1
    /\ why[1] # "blocked" /\ why[2] # "blocked"

\* C4: when the robots.txt request of a domain raised, the cached parser
\* allows every URL of the domain, the cached delay is 0, the exception
\* did not leave the call, no URL of the domain is skipped as blocked, and
\* the latest call, once over, has made its politeness sleep of 0 and at
\* least one Light attempt.
C4_FailedRobotsAllowsAll ==
    \A d \in robotsFailed :
        /\ parsers[d] # None
        /\ \A u \in URL : Domain(u) = d => CanFetch(parsers[d][1], u)
        /\ delays[d] = Some(0)
        /\ raised \in {"", CancelledError}
        /\ \A i \in Positions : Domain(urls[i]) = d =>
             /\ why[i] # "blocked"
             /\ (Done(i) /\ Latest(i)) => delayN = 1 /\ lightN >= 1

C4_Witness ==
    /\ pc = "light"
    /\ domain \in robotsFailed
    /\ url.path = "/blocked"
    /\ lastSleep = [kind |-> "delay", secs |-> 0, after |-> 0]

\* C5: a URL its domain's cached parser disallows ends with None as
\* blocked, and its call made no Light attempt, no Rendered attempt and no
\* sleep of either kind.
C5_BlockedMakesNoAttempt ==
    \A i \in Positions :
        (Done(i) /\ ~CanFetch(parsers[Domain(urls[i])][1], urls[i])) =>
            /\ ret[i] = None
            /\ why[i] = "blocked"
            /\ Latest(i) => lightN = 0 /\ rendN = 0 /\ delayN = 0 /\ lastSleep = NoSleep

C5_Witness ==
    /\ pc = "loop"
    /\ idx = 2
    /\ why[1] = "blocked"
    /\ lightN = 0

\* C6: a Rendered attempt of a call is started, or about to be, only when
\* the call has made all max_retries Light attempts; a call never makes
\* more, and one that ends without a record and unblocked made exactly
\* max_retries of them.
C6_RenderedAfterLightExhausted ==
    /\ lightN <= max_retries
    /\ (rendN > 0 \/ pc \in RenderPoints \cup {"fallback"}) => lightN = max_retries
    /\ \A i \in Positions :
         (Latest(i) /\ why[i] \in {"exhausted", "unavailable"}) => lightN = max_retries

C6_Witness ==
    /\ pc = "rendered"
    /\ rendN = 1
    /\ lightN = max_retries
    /\ lastSleep = [kind |-> "backoff", secs |-> max_retries - 1, after |-> max_retries - 1]

\* C7: without playwright no Rendered attempt is ever started, and a call
\* whose Light attempts are exhausted ends with None after exactly
\* max_retries Light attempts.
C7_NoRenderingNoRenderedAttempt ==
    ~playwright =>
        /\ rendN = 0
        /\ pc \notin RenderPoints
        /\ \A i \in Positions :
             /\ why[i] # "exhausted"
             /\ why[i] = "unavailable" => ret[i] = None
             /\ (Latest(i) /\ why[i] = "unavailable") => lightN = max_retries

C7_Witness ==
    /\ ~playwright
    /\ pc = "loop"
    /\ idx = 2
    /\ why[1] = "unavailable"
    /\ lightN = max_retries

\* C8: every record fetch_article returned, and every record collected in
\* the result list, has text that is not empty after stripping whitespace.
C8_RecordsHaveText ==
    /\ \A i \in 1..Len(results) : results[i] # None /\ Strip(results[i][1].text) # <<>>
    /\ \A i \in Positions : ret[i] # None => Strip(ret[i][1].text) # <<>>

C8_Witness ==
    /\ pc = "loop"
    /\ Len(results) = 2
    /\ results[1][1].text = <<" ", "a", " ">>
    /\ rendN > 0

\* C9 (as claimed): whenever an attempt against a domain starts (a retry,
\* a fallback or the first attempt of a URL) after an earlier attempt
\* against it, at least the domain's crawl-delay has passed since that
\* earlier attempt started.
C9_EveryAttemptSpaced ==
    (lastGap.kind # "none" /\ lastGap.gap # -1) =>
        lastGap.gap >= delays[lastGap.domain][1]

\* C9 (amended): the first Light attempt of a URL starts at least the
\* domain's crawl-delay after the previous attempt against that domain.
C9_FirstAttemptSpaced ==
    (lastGap.kind = "first" /\ lastGap.gap # -1) =>
        lastGap.gap >= delays[lastGap.domain][1]

C9_Witness ==
    /\ lastGap.kind = "first"
    /\ lastGap.gap = 1
    /\ delays[lastGap.domain] = Some(1)
    /\ idx = 2

\* C10: when scrape_urls is over, by returning or by an exception, the
\* session has been closed, and closed once.
C10_SessionReleasedOnce ==
    Ended => ~sessionOpen /\ closes = 1

\* C11: once the task has been cancelled, no Light and no Rendered attempt
\* is started, for the running URL or a later one: no step taken after the
\* cancellation raises the number of attempts.
C11_NoAttemptAfterCancel ==
    [][cancelled => (lightN' <= lightN /\ rendN' <= rendN /\ pc' \notin {"light", "rendered"})]_vars

C11_Witness ==
    /\ cancelled
    /\ pc = "raised"
    /\ Len(urls) = 2
    /\ stage[1] = "ACTIVE"
    /\ stage[2] = "PENDING"
    /\ sinceLast[Domain(urls[1])] = 0

\* C12: the process exits with status 0 when the batch completed, whether
\* its URLs failed or not, and with a status other than 0 when it was
\* given no URL.
C12_ExitStatus ==
    exitCode # -1 =>
        /\ (pc = "returned" /\ Len(urls) > 0) => exitCode = 0
        /\ Len(urls) = 0 => exitCode # 0

\* C13: the loop counter moves from n to n + 1 only out of a backoff sleep
\* of n time units made after attempt n, whatever made attempt n fail; and
\* no backoff sleep is entered after attempt max_retries.
C13_BackoffBeforeEveryRetry ==
    [][/\ (attempt >= 1 /\ attempt' = attempt + 1) =>
            /\ pc \in {"lbackoff", "rbackoff"}
            /\ lastSleep = [kind |-> "backoff", secs |-> attempt, after |-> attempt]
       /\ (pc' \in {"lbackoff", "rbackoff"} /\ pc' # pc) => attempt < max_retries]_vars

\* The event loop runs the task whenever it can run: every await of the
\* model ends, by a result, an exception or a cancellation.
FairSpec == Spec /\ WF_vars(Next)

\* The counters of C14 in every state: the loop variable counts the
\* attempts of the running strategy alone, so the playwright loop starts
\* from 1 with all its max_retries attempts ahead; neither strategy makes
\* more than max_retries attempts; a call that exhausts both made
\* max_retries of each and returned None.
CountersPerStrategy ==
    /\ lightN <= max_retries /\ rendN <= max_retries
    /\ pc = "light_start" => attempt = lightN + 1
    /\ pc \in {"light", "lbackoff"} => attempt = lightN
    /\ pc = "rendered_start" => attempt = rendN + 1
    /\ pc \in {"rendered", "rbackoff"} => attempt = rendN
    /\ \A i \in Positions :
         /\ (Latest(i) /\ why[i] = "exhausted") =>
                lightN = max_retries /\ rendN = max_retries /\ ret[i] = None
         /\ (Done(i) /\ why[i] # "record") => ret[i] = None

\* C14: the counters are per (URL, strategy) as above, and every call of
\* fetch_article that is entered reaches DONE, unless the task is
\* cancelled first.
C14_CountersResetAndCallEnds ==
    /\ []CountersPerStrategy
    /\ \A i \in 1..MaxBatch :
         (i \in Positions /\ stage[i] = "ACTIVE") ~> (i \in Positions /\ (Done(i) \/ cancelled))

C14_Witness ==
    /\ pc = "loop"
    /\ idx = 2
    /\ why[1] = "exhausted"
    /\ lightN = max_retries
    /\ rendN = max_retries
    /\ ~cancelled

\* C15: a call makes at most one politeness sleep; none while the policy
\* is being resolved or checked, none when the URL is blocked; exactly one,
\* of the domain's cached crawl-delay, made before any attempt, by the time
\* the first Light attempt is due and ever after, through retries and
\* fallback.
C15_OnePolitenessSleep ==
    /\ delayN <= 1
    /\ pc \in {"robots", "policy"} => delayN = 0
    /\ pc = "delay" =>
         /\ delayN = 1 /\ lightN = 0 /\ rendN = 0
         /\ lastSleep = [kind |-> "delay", secs |-> delays[domain][1], after |-> 0]
    /\ pc \in {"light_start", "light", "lbackoff", "fallback"} \cup RenderPoints => delayN = 1
    /\ (lightN > 0 \/ rendN > 0) => delayN = 1
    /\ \A i \in Positions :
         (Latest(i) /\ Done(i)) => delayN = IF why[i] = "blocked" THEN 0 ELSE 1

C15_Witness ==
    /\ pc = "rendered"
    /\ rendN = 2
    /\ delayN = 1
    /\ delays[domain] = Some(1)
    /\ lastSleep.kind = "backoff"

\* ---- fetch_article calls interleaved on one NewsCrawler ----
\* Two or more calls started together (asyncio.gather over one crawler)
\* share crawler.robots. Each call's first await is the one in
\* RobotsCache.allowed; its steps are interleaved with those of the other
\* calls at that await. stage[i] is the position of call i: PENDING before
\* it ran, ACTIVE while it awaits self.fetch, DONE once allowed() returned;
\* ret[i] is the parser the call decided with and why[i] its decision.
concRest == <<urls, playwright, sessionOpen, results, idx, attempt, pc, raised,
              closes, lightN, rendN, delayN, lastSleep, sinceLast, lastGap,
              cancelled, exitCode, unavailable, env>>

\* `parser = self.parsers[domain]` and the return of allowed (lines 58-59),
\* run without an await in between.
Decide(i, cache) ==
    /\ ret' = [ret EXCEPT ![i] = cache[Domain(urls[i])]]
    /\ why' = [why EXCEPT ![i] =
                 IF CanFetch(cache[Domain(urls[i])][1], urls[i]) THEN "allowed" ELSE "blocked"]
    /\ stage' = [stage EXCEPT ![i] = "DONE"]

\* Call i runs up to its first await: the cache lookup and, on a miss, the
\* robots.txt request (lines 54-57, 40-45).
AllowedBegin(i) ==
    /\ stage[i] = "PENDING"
    /\ IF NeedsFetch(parsers, Domain(urls[i]))
       THEN /\ robotsFetches' = [robotsFetches EXCEPT ![Domain(urls[i])] = @ + 1]
            /\ stage' = [stage EXCEPT ![i] = "ACTIVE"]
            /\ UNCHANGED <<ret, why>>
       ELSE /\ Decide(i, parsers)
            /\ UNCHANGED robotsFetches
    /\ UNCHANGED <<parsers, delays, robotsFailed, concRest>>

\* The robots.txt request of call i is answered or raises: fetch stores the
\* parser and the delay, and allowed returns (lines 45-59).
AllowedFetched(i) ==
    /\ stage[i] = "ACTIVE"
    /\ \E resp \in RobotsResponses :
         /\ parsers' = [parsers EXCEPT ![Domain(urls[i])] = Some(ParserFor(resp))]
         /\ delays' = [delays EXCEPT ![Domain(urls[i])] = Some(DelayOf(ParserFor(resp)))]
         /\ robotsFailed' = IF resp.ok THEN robotsFailed
                            ELSE robotsFailed \cup {Domain(urls[i])}
    /\ Decide(i, parsers')
    /\ UNCHANGED <<robotsFetches, concRest>>

ConcBegin == \E i \in Positions : AllowedBegin(i)
ConcFetched == \E i \in Positions : AllowedFetched(i)

ConcInit == Init
ConcNext == ConcBegin \/ ConcFetched
SpecConc == ConcInit /\ [][ConcNext]_vars

\* C16: when calls for URLs of one domain are interleaved on one crawler,
\* robots.txt of the domain is requested at most once, and all calls that
\* have decided for the domain decided with the same parser.
C16_InterleavedCallsFetchOnce ==
    /\ \A d \in Domains : robotsFetches[d] <= 1
    /\ \A i, j \in Positions :
         (stage[i] = "DONE" /\ stage[j] = "DONE" /\ Domain(urls[i]) = Domain(urls[j]))
            => ret[i] = ret[j]

\* C17: a step never changes the parser, the delay or the number of
\* robots.txt requests of a domain whose policy is cached, and a call
\* entered for a URL of such a domain makes no robots.txt request at all.
C17_ResolvedPolicyFrozen ==
    [][/\ \A d \in Domains : parsers[d] # None =>
            /\ parsers'[d] = parsers[d]
            /\ delays'[d] = delays[d]
            /\ robotsFetches'[d] = robotsFetches[d]
       /\ (pc = "loop" /\ idx <= Len(urls) /\ parsers[Domain(urls[idx])] # None) =>
            /\ pc' # "robots"
            /\ cacheVars' = cacheVars]_vars

C17_Witness ==
    /\ pc = "delay"
    /\ idx = 2
    /\ Domain(urls[1]) = Domain(urls[2])
    /\ robotsFetches[domain] = 1
    /\ parsers[domain] = Some([disallow |-> {"/blocked"}, crawl_delay |-> Some(1)])

\* C18: at most one "Playwright not available" entry is logged in a
\* session, however many URLs of the batch needed the fallback.
C18_LoggedOncePerSession ==
    unavailable <= 1

C20_InputOrderOneAtATime ==
    /\ \A i \in Positions : ret[i] # None => ret[i][1].url = urls[i]
    /\ \A a \in 1..Len(results) : \E i \in Positions : results[a] = ret[i] /\ ret[i] # None
    /\ \A a, b \in 1..Len(results) :
         a < b => \E i, j \in Positions : i < j /\ results[a] = ret[i] /\ results[b] = ret[j]
    /\ \A i \in Positions : stage[i] # "PENDING" => \A j \in 1..(i - 1) : Done(j)
    /\ Cardinality({i \in Positions : stage[i] = "ACTIVE"}) <= 1

C20_Witness ==
    /\ pc = "returned"
    /\ Len(results) = 2
    /\ urls[1] # urls[2]
    /\ results[1][1].url = urls[1]
    /\ results[2][1].url = urls[2]

====
